---- MODULE Spec2Model ----
(***************************************************************************)
(* TransGpa: the transcript-to-ledger pipeline.                            *)
(*                                                                         *)
(* Numbers.  The program computes in IEEE doubles.  The model keeps every  *)
(* credit value a multiple of 0.5 and every grade point a multiple of 0.25 *)
(* (the values of GRADE_POINTS), so that products, sums and comparisons of *)
(* quotients are exact in doubles and integer arithmetic reproduces them:  *)
(*   credits : integer count of half credits   (3.0 credits = 6)           *)
(*   points  : integer count of eighths        (12.0 points = 96)          *)
(*   sgpa    : a reduced fraction <<num, den>>                             *)
(*   cgpa    : the string toFixed(2) prints, as <<sign, hundredths>>       *)
(* Strings that the program inspects character by character (course codes, *)
(* typed credit values) are sequences of one-character strings; a student  *)
(* field is the sequence of its text items, << >> for the empty string.    *)
(***************************************************************************)
EXTENDS Integers, Sequences, FiniteSets, TLC

(* ------------------------------ bounds -------------------------------- *)

\* edit operations applied to one loaded record
MaxEdits == 2

\* largest value Date.now() returns
MaxClock == 2

(* --------------------------- small helpers ---------------------------- *)

\* null, for a value that is otherwise a record
Null == [null |-> TRUE]

\* null, for a value that is otherwise a string
NoError == "null"

Abs(x) == IF x < 0 THEN -x ELSE x

RECURSIVE Gcd(_, _)
Gcd(a, b) == IF b = 0 THEN a ELSE Gcd(b, a % b)

\* the double n/d, identified by its reduced fraction (d > 0)
Frac(n, d) ==
    IF n = 0 THEN <<0, 1>>
    ELSE LET g == Gcd(Abs(n), d) IN <<n \div g, d \div g>>

Digits == <<"0", "1", "2", "3", "4", "5", "6", "7", "8", "9">>

DigitVal(ch) == (CHOOSE i \in 1..10 : Digits[i] = ch) - 1

IsDigit(ch) == \E i \in 1..10 : Digits[i] = ch

\* template-string rendering of a small number: `${n}`
NumStr(n) == <<Digits[n + 1]>>

Lower == <<"a", "b", "c", "d", "e", "f", "g", "h", "i", "j", "k", "l", "m",
           "n", "o", "p", "q", "r", "s", "t", "u", "v", "w", "x", "y", "z">>

Upper == <<"A", "B", "C", "D", "E", "F", "G", "H", "I", "J", "K", "L", "M",
           "N", "O", "P", "Q", "R", "S", "T", "U", "V", "W", "X", "Y", "Z">>

\* the upper-case letter of each lower-case letter
UpperOf ==
    [ch \in {Lower[i] : i \in 1..26} |-> Upper[CHOOSE i \in 1..26 : Lower[i] = ch]]

\* String.prototype.toUpperCase, one character
ToUpperChar(ch) == IF ch \in DOMAIN UpperOf THEN UpperOf[ch] ELSE ch

(* ----------------------- pdf-parser.ts: grades ------------------------ *)

\* GRADE_POINTS, in quarter points (A = 4.00 = 16)
GRADE_POINTS ==
    [g \in {"A", "A-", "B+", "B", "C+", "C", "D+", "D", "F", "W", "I"} |->
        CASE g = "A"  -> 16
          [] g = "A-" -> 15
          [] g = "B+" -> 14
          [] g = "B"  -> 12
          [] g = "C+" -> 10
          [] g = "C"  -> 8
          [] g = "D+" -> 6
          [] g = "D"  -> 4
          [] g = "F"  -> 0
          [] g = "W"  -> 0
          [] g = "I"  -> 0]

\* Canonical Grade Order (High to Low)
GRADES_ORDER == <<"A", "A-", "B+", "B", "C+", "C", "D+", "D", "F">>

\* getGradePoints that gives an unknown grade the points of the lowest pass
getGradePointsLowestPass(grade) ==
    IF grade \in DOMAIN GRADE_POINTS THEN GRADE_POINTS[grade] ELSE 4

\* GRADE_POINTS[grade] ?? 0
getGradePoints(grade) ==
    IF grade \in DOMAIN GRADE_POINTS THEN GRADE_POINTS[grade] ELSE 0

\* getGradePoints(grade) * (grade === 'W' ? 0 : credits), in eighths
CoursePoints(grade, credits) ==
    getGradePoints(grade) * (IF grade = "W" THEN 0 ELSE credits)

(* --------------------------- parseFloat ------------------------------- *)

RECURSIVE DigitRun(_, _)
\* the length of the run of digits of text that starts at position i
DigitRun(text, i) ==
    IF i <= Len(text) /\ IsDigit(text[i]) THEN 1 + DigitRun(text, i + 1) ELSE 0

RECURSIVE DigitsValue(_, _, _)
\* the decimal value of text[i .. i+n-1]
DigitsValue(text, i, n) ==
    IF n = 0 THEN 0
    ELSE 10 * DigitsValue(text, i, n - 1) + DigitVal(text[i + n - 1])

\* parseFloat(text): [nan |-> TRUE] or the value in half credits: an optional sign, a run of
\* digits, an optional point and fraction (only its first digit, 0 or 5, is
\* given in the texts of this model); what follows the number is ignored.
ParseFloat(text) ==
    LET neg   == Len(text) >= 1 /\ text[1] = "-"
        start == IF neg THEN 2 ELSE 1
        n     == DigitRun(text, start)
        dot   == start + n
        hasFr == /\ dot + 1 <= Len(text)
                 /\ text[dot] = "."
                 /\ IsDigit(text[dot + 1])
        half  == IF hasFr /\ DigitVal(text[dot + 1]) >= 5 THEN 1 ELSE 0
        mag   == 2 * DigitsValue(text, start, n) + half
    IN  IF n = 0 /\ ~(dot <= Len(text) /\ text[dot] = "." /\ hasFr)
        THEN [nan |-> TRUE, val |-> 0]
        ELSE [nan |-> FALSE, val |-> IF neg THEN -mag ELSE mag]

(* ------------------------ gpa-engine.ts ------------------------------- *)

RECURSIVE StripCode(_)
\* code.replace(/[-\s]/g, '')
StripCode(code) ==
    IF code = << >> THEN << >>
    ELSE IF Head(code) \in {"-", " "} THEN StripCode(Tail(code))
    ELSE <<Head(code)>> \o StripCode(Tail(code))

\* NormalizeCode without toUpperCase
NormalizeCodeKeepCase(code) == StripCode(code)

\* const key = course.code.replace(/[-\s]/g, '').toUpperCase()
NormalizeCode(code) ==
    LET s == StripCode(code) IN [i \in 1..Len(s) |-> ToUpperChar(s[i])]

RECURSIVE Flatten(_)
\* semesters.forEach(sem => sem.courses.forEach(...)): the visiting order
Flatten(semesters) ==
    IF semesters = << >> THEN << >>
    ELSE Head(semesters).courses \o Flatten(Tail(semesters))

\* RatioDen with the divisor max(credits, 1) instead of (credits || 1)
RatioDenMax(course) == IF course.credits < 2 THEN 8 ELSE 4 * course.credits

\* x / (credits || 1) as a fraction of integers: points are eighths and
\* credits are halves, so the ratio is points / (4 * credits), or points / 8
\* when credits is 0
RatioDen(course) == IF course.credits = 0 THEN 8 ELSE 4 * course.credits

\* n1/d1 > n2/d2 for nonzero d1, d2 of either sign
FracGt(n1, d1, n2, d2) ==
    IF (d1 > 0) = (d2 > 0) THEN n1 * d2 > n2 * d1 ELSE n1 * d2 < n2 * d1

\* BetterAttempt with >= for >: a later attempt also wins a tie
BetterOrEqualAttempt(current, existing) ==
    ~FracGt(existing.points, RatioDen(existing), current.points, RatioDen(current))

\* currentGP > existingGP
BetterAttempt(current, existing) ==
    FracGt(current.points, RatioDen(current), existing.points, RatioDen(existing))

\* the position in the Map of the entry for key, or 0
MapFind(map, key) ==
    IF \E k \in 1..Len(map) : map[k].key = key
    THEN CHOOSE k \in 1..Len(map) : map[k].key = key
    ELSE 0

\* One visit of the forEach body.  The Map is a sequence of entries in
\* insertion order; an entry holds the key and the reference to the course
\* object, which is its position in the flattened visiting order.
CourseMapVisit(map, flat, i) ==
    LET key == NormalizeCode(flat[i].code)
        k   == MapFind(map, key)
    IN  IF k = 0 THEN Append(map, [key |-> key, ref |-> i])
        ELSE IF BetterAttempt(flat[i], flat[map[k].ref])
             THEN [map EXCEPT ![k].ref = i]
             ELSE map

RECURSIVE BuildCourseMap(_, _)
\* the Map after the first n courses of flat were visited
BuildCourseMap(flat, n) ==
    IF n = 0 THEN << >>
    ELSE CourseMapVisit(BuildCourseMap(flat, n - 1), flat, n)

\* Excluded that forgets the incomplete marker
ExcludedOnlyW(course) == course.grade = "W"

\* if (course.grade === 'W' || course.grade === 'I') return;
Excluded(course) == course.grade = "W" \/ course.grade = "I"

\* Earned that counts a failed course too
EarnedAlways(course) == TRUE

\* if (course.grade !== 'F') totalEarnedCredits += course.credits
Earned(course) == course.grade # "F"

RECURSIVE SumMap(_, _, _)
\* courseMap.forEach: the three running totals after the first n entries
SumMap(map, flat, n) ==
    IF n = 0 THEN [totalPoints |-> 0, totalCredits |-> 0, totalEarnedCredits |-> 0]
    ELSE LET acc    == SumMap(map, flat, n - 1)
             course == flat[map[n].ref]
         IN  IF Excluded(course) THEN acc
             ELSE [totalPoints        |-> acc.totalPoints + course.points,
                   totalCredits       |-> acc.totalCredits + course.credits,
                   totalEarnedCredits |->
                       IF Earned(course)
                       THEN acc.totalEarnedCredits + course.credits
                       ELSE acc.totalEarnedCredits]

\* (n / d).toFixed(2) for d > 0: the sign and the nearest count of
\* hundredths, a tie going away from zero
ToFixed2(n, d) ==
    LET m == (200 * Abs(n) + d) \div (2 * d)
    IN  <<IF n < 0 THEN "-" ELSE "", m>>

\* totalCredits > 0 ? (totalPoints / totalCredits).toFixed(2) : "0.00"
\* (points / credits = eighths / (4 * halves))
FormatCgpa(totalPoints, totalCredits) ==
    IF totalCredits > 0 THEN ToFixed2(totalPoints, 4 * totalCredits) ELSE <<"", 0>>

calculateCGPA(semesters) ==
    LET flat == Flatten(semesters)
        map  == BuildCourseMap(flat, Len(flat))
        sums == SumMap(map, flat, Len(map))
    IN  [cgpa               |-> FormatCgpa(sums.totalPoints, sums.totalCredits),
         totalCredits       |-> sums.totalCredits,
         totalPoints        |-> sums.totalPoints,
         totalEarnedCredits |-> sums.totalEarnedCredits]

\* PushProcessed that starts the list over instead of extending it
PushProcessedOnly(processedSemesters, semester) == <<semester>>

\* processedSemesters.push(semester)
PushProcessed(processedSemesters, semester) == Append(processedSemesters, semester)

RECURSIVE ProgressionLoop(_, _)
\* progressions and processedSemesters after n iterations of the for loop
ProgressionLoop(semesters, n) ==
    IF n = 0 THEN [progressions |-> << >>, processedSemesters |-> << >>]
    ELSE LET before    == ProgressionLoop(semesters, n - 1)
             semester  == semesters[n]
             processed == PushProcessed(before.processedSemesters, semester)
             stats     == calculateCGPA(processed)
         IN  [progressions |->
                  Append(before.progressions,
                         [semesterId        |-> semester.id,
                          cumulativeCGPA    |-> stats.cgpa,
                          cumulativeCredits |-> stats.totalCredits]),
              processedSemesters |-> processed]

\* calculateSemesterProgressions that hands the whole list to calculateCGPA
ProgressionsOfWholeList(semesters) ==
    [n \in 1..Len(semesters) |->
        [semesterId        |-> semesters[n].id,
         cumulativeCGPA    |-> calculateCGPA(semesters).cgpa,
         cumulativeCredits |-> calculateCGPA(semesters).totalCredits]]

calculateSemesterProgressions(semesters) ==
    ProgressionLoop(semesters, Len(semesters)).progressions

(* ------------------- TranscriptView.tsx: recompute -------------------- *)

\* EffectiveCourses without the filter
EffectiveCoursesAll(courses) == courses

\* courses.filter(c => c.grade !== 'W' && c.grade !== 'I')
EffectiveCourses(courses) == SelectSeq(courses, LAMBDA c : ~Excluded(c))

RECURSIVE ReduceCredits(_)
\* reduce((sum, c) => sum + (c.credits || 0), 0)
ReduceCredits(courses) ==
    IF courses = << >> THEN 0
    ELSE ReduceCredits(SubSeq(courses, 1, Len(courses) - 1))
         + courses[Len(courses)].credits

RECURSIVE ReducePoints(_)
\* reduce((sum, c) => sum + (c.points || 0), 0)
ReducePoints(courses) ==
    IF courses = << >> THEN 0
    ELSE ReducePoints(SubSeq(courses, 1, Len(courses) - 1))
         + courses[Len(courses)].points

\* Sgpa that divides whenever the credits are not zero
SgpaNonZero(totalPoints, totalCredits) ==
    IF totalCredits # 0
    THEN Frac(IF totalCredits < 0 THEN -totalPoints ELSE totalPoints,
              4 * Abs(totalCredits))
    ELSE <<0, 1>>

\* totalCredits > 0 ? totalPoints / totalCredits : 0
Sgpa(totalPoints, totalCredits) ==
    IF totalCredits > 0 THEN Frac(totalPoints, 4 * totalCredits) ELSE <<0, 1>>

\* recalculateSemester that adds the sums to the totals already stored
recalculateSemesterAdding(sem) ==
    LET effectiveCourses == EffectiveCourses(sem.courses)
        totalCredits     == sem.totalCredits + ReduceCredits(effectiveCourses)
        totalPoints      == sem.totalPoints + ReducePoints(effectiveCourses)
    IN  [sem EXCEPT !.sgpa = Sgpa(totalPoints, totalCredits),
                    !.totalCredits = totalCredits,
                    !.totalPoints = totalPoints]

recalculateSemester(sem) ==
    LET effectiveCourses == EffectiveCourses(sem.courses)
        totalCredits     == ReduceCredits(effectiveCourses)
        totalPoints      == ReducePoints(effectiveCourses)
    IN  [sem EXCEPT !.sgpa = Sgpa(totalPoints, totalCredits),
                    !.totalCredits = totalCredits,
                    !.totalPoints = totalPoints]

(* ------------------------ pdf-parser.ts: parse ------------------------ *)

(* The extracted text is a sequence of the pieces the parser's regular    *)
(* expressions can match, in reading order: a semester header, a course   *)
(* line, an SGPA label.  Each piece carries the captured groups as text.  *)

\* a match of semesterHeaderRegex; k is the ordinal printed in the header
Hdr(k) ==
    [t |-> "hdr", label |-> <<"Semester", k>>, code |-> << >>, title |-> "",
     credits |-> << >>, grade |-> "", repeat |-> FALSE, sgpa |-> 0]

\* a match of courseRegex
Crs(code, credits, grade) ==
    [t |-> "course", label |-> << >>, code |-> code, title |-> "Title",
     credits |-> credits, grade |-> grade, repeat |-> FALSE, sgpa |-> 0]

\* a match of sgpaRegex; v is the captured number in hundredths
SgpaTok(v) ==
    [t |-> "sgpa", label |-> << >>, code |-> << >>, title |-> "",
     credits |-> << >>, grade |-> "", repeat |-> FALSE, sgpa |-> v]

\* [...text.matchAll(semesterHeaderRegex)]: the positions of the headers
HeaderMatches(text) ==
    LET idx == {i \in 1..Len(text) : text[i].t = "hdr"}
        F[n \in 0..Cardinality(idx)] ==
            IF n = 0 THEN << >>
            ELSE LET prev == F[n - 1]
                     last == IF n = 1 THEN 0 ELSE prev[n - 1]
                 IN  Append(prev, CHOOSE i \in idx :
                                     /\ i > last
                                     /\ \A j \in idx : j > last => i <= j)
    IN  F[Cardinality(idx)]

\* BlockText that runs every block to the end of the text
BlockTextToEnd(text, matches, i) == SubSeq(text, matches[i], Len(text))

\* text.slice(startIndex, endIndex) of block i (1-based over matches)
BlockText(text, matches, i) ==
    LET startIndex == matches[i]
        endIndex   == IF i < Len(matches) THEN matches[i + 1] ELSE Len(text) + 1
    IN  SubSeq(text, startIndex, endIndex - 1)

\* one iteration of the loop over courseMatches
ParsedCourse(m) ==
    LET credits == ParseFloat(m.credits).val  \* group 3 is \d+\.\d, never NaN
    IN  [code     |-> m.code,
         title    |-> m.title,
         credits  |-> credits,
         grade    |-> m.grade,
         points   |-> CoursePoints(m.grade, credits),
         isRepeat |-> m.repeat]

\* sgpaMatch ? parseFloat(sgpaMatch[1]) : 0
ParsedSgpa(block) ==
    LET hits == SelectSeq(block, LAMBDA x : x.t = "sgpa")
    IN  IF hits = << >> THEN <<0, 1>> ELSE Frac(hits[1].sgpa, 100)

\* parseSemesterBlock(header, text, index); index is 0-based
parseSemesterBlock(header, block, index) ==
    LET ms               == SelectSeq(block, LAMBDA x : x.t = "course")
        courses          == [k \in 1..Len(ms) |-> ParsedCourse(ms[k])]
        effectiveCourses == EffectiveCourses(courses)
    IN  [id           |-> <<"sem", index>>,
         name         |-> header.label,
         courses      |-> courses,
         sgpa         |-> ParsedSgpa(block),
         totalCredits |-> ReduceCredits(effectiveCourses),
         totalPoints  |-> ReducePoints(effectiveCourses)]

RECURSIVE ParseBlocks(_, _, _)
\* semesters after the first n iterations of the loop over matches
ParseBlocks(text, matches, n) ==
    IF n = 0 THEN << >>
    ELSE LET semester == parseSemesterBlock(text[matches[n]],
                                            BlockText(text, matches, n), n - 1)
             sofar    == ParseBlocks(text, matches, n - 1)
         IN  IF Len(semester.courses) > 0 THEN Append(sofar, semester) ELSE sofar

\* a label of the student block with the text items that follow it up to
\* the next piece; the items of a page are joined by single blanks, so an
\* item "" leaves two blanks in a row
Lbl(name, items) == [t |-> "label", name |-> name, items |-> items]

\* the text of a piece, as items
ItemsOf(piece) ==
    IF piece.t = "label" THEN <<piece.name>> \o piece.items ELSE <<piece.t>>

RECURSIVE ItemsFrom(_, _, _)
\* the items of the pieces text[i .. j]
ItemsFrom(text, i, j) ==
    IF i > j THEN << >> ELSE ItemsOf(text[i]) \o ItemsFrom(text, i + 1, j)

RECURSIVE TrimItems(_)
\* String.prototype.trim: no blank is left at either end, so an empty item
\* at either end goes; << >> is the empty string
TrimItems(items) ==
    IF items = << >> THEN << >>
    ELSE IF Head(items) = "" THEN TrimItems(Tail(items))
    ELSE IF items[Len(items)] = "" THEN TrimItems(SubSeq(items, 1, Len(items) - 1))
    ELSE items

\* the positions of the label name in the text
LabelAt(text, name) ==
    {i \in 1..Len(text) : text[i].t = "label" /\ text[i].name = name}

\* text.match(/<start>\s*(.*?)\s+<end>/): group 1, or Null without a match.
\* The match begins at the first start label that an end label follows and
\* the lazy group stops at the nearest such end label.  With blankFirst the
\* pattern is /<start>\s+(.*?)\s+<end>/, which needs two separate runs of
\* blanks: an end label right after the start label, with no item between,
\* does not end the group.
MatchBetween(text, start, end, blankFirst) ==
    LET ends(i) == {j \in LabelAt(text, end) :
                       /\ j > i
                       /\ blankFirst => ~(j = i + 1 /\ text[i].items = << >>)}
        starts  == {i \in LabelAt(text, start) : ends(i) # {}}
    IN  IF starts = {} THEN Null
        ELSE LET i == CHOOSE x \in starts : \A y \in starts : x <= y
                 j == CHOOSE x \in ends(i) : \A y \in ends(i) : x <= y
             IN  [group |-> text[i].items \o ItemsFrom(text, i + 1, j - 1)]

\* the items of the model's texts that \d+ matches
NumberItems == {"2021001"}

\* text.match(/Student No:\s*(\d+)/i): group 1, or Null without a match
MatchStudentNo(text) ==
    LET hits == {i \in LabelAt(text, "Student No:") :
                    /\ TrimItems(text[i].items) # << >>
                    /\ Head(TrimItems(text[i].items)) \in NumberItems}
    IN  IF hits = {} THEN Null
        ELSE LET i == CHOOSE x \in hits : \A y \in hits : x <= y
             IN  [group |-> <<Head(TrimItems(text[i].items))>>]

\* match ? match[1].trim() : "Unknown"
StudentField(match) ==
    IF match = Null THEN <<"Unknown">> ELSE TrimItems(match.group)

\* the StudentInfo of parseTranscript
ParseStudent(text) ==
    [name       |-> StudentField(MatchBetween(text, "Student Name:", "Father's Name:", FALSE)),
     fatherName |-> StudentField(MatchBetween(text, "Father's Name:", "Student No:", FALSE)),
     studentNo  |-> StudentField(MatchStudentNo(text)),
     regStatus  |-> StudentField(MatchBetween(text, "RegStatus", "Program:", TRUE)),
     program    |-> StudentField(MatchBetween(text, "Program:", "Course Code", FALSE))]

\* parseTranscript(text): the record, or the thrown error
parseTranscript(text) ==
    LET matches == HeaderMatches(text)
    IN  IF Len(matches) = 0
        THEN [ok |-> FALSE, error |-> "No semester headers found"]
        ELSE [ok |-> TRUE,
              value |-> [student   |-> ParseStudent(text),
                         semesters |-> ParseBlocks(text, matches, Len(matches))]]

(* ------------------------------ inputs -------------------------------- *)

CS1 == <<"C", "S", "1">>

CSh1 == <<"C", "S", "-", "1">>

MA2 == <<"M", "A", "2">>

Cr30 == <<"3", ".", "0">>

Cr05 == <<"0", ".", "5">>

\* a student block with every field filled in
FullStudentBlock ==
    <<Lbl("Student Name:", <<"Ali", "Khan">>), Lbl("Father's Name:", <<"Khan">>),
      Lbl("Student No:", <<"2021001">>), Lbl("RegStatus", <<"Regular">>),
      Lbl("Program:", <<"BSSE">>), Lbl("Course Code", << >>)>>

\* a student block with every label and no value: nothing, or an empty
\* item, stands between a label and the next
EmptyStudentBlock ==
    <<Lbl("Student Name:", << >>), Lbl("Father's Name:", <<"">>),
      Lbl("Student No:", << >>), Lbl("RegStatus", <<"">>),
      Lbl("Program:", << >>), Lbl("Course Code", << >>)>>

\* a student block that lacks labels: no father's name, and the program
\* label right after RegStatus
PartialStudentBlock ==
    <<Lbl("Student Name:", <<"Ali">>), Lbl("Student No:", <<"N/A">>),
      Lbl("RegStatus", << >>), Lbl("Program:", <<"BSSE">>),
      Lbl("Course Code", << >>)>>

\* the transcripts a user uploads
Transcripts ==
    { \* a C, retaken for an A; the first block prints its SGPA
      FullStudentBlock
          \o <<Hdr(1), Crs(CS1, Cr30, "C"), SgpaTok(200), Hdr(2), Crs(CSh1, Cr30, "A")>>,
      \* a withdrawal, then a fail of the same course, and an incomplete
      EmptyStudentBlock
          \o <<Hdr(1), Crs(CS1, Cr30, "W"), Crs(MA2, Cr30, "I"), Hdr(2), Crs(CS1, Cr30, "F")>>,
      \* a half-credit retake, and a grade outside the table
      <<Hdr(1), Crs(CS1, Cr30, "C"), Crs(MA2, Cr30, "E"), Hdr(2), Crs(CS1, Cr05, "A")>>,
      \* one block with a pass and a fail; its SGPA is printed rounded
      PartialStudentBlock
          \o <<Hdr(1), Crs(CS1, Cr30, "A"), Crs(MA2, Cr30, "F"), SgpaTok(200)>>,
      \* a course line before the first header and a block without courses
      <<Crs(MA2, Cr30, "A"), Hdr(1), Hdr(2), Crs(CS1, Cr05, "F"), SgpaTok(0)>>,
      \* no header at all
      <<Crs(CS1, Cr30, "A")>>,
      \* headers only
      <<Hdr(1)>> }

\* the grades courseRegex captures ([A-F][+\-]?) that GRADE_POINTS lacks
UnknownGrades == {"A+", "B-", "C-", "D-", "E", "E+", "E-", "F+", "F-"}

\* the options of the grade select the model picks from
\* (gradeOptions = [...GRADES_ORDER, 'W', 'I'])
GradeInputs == {"A", "C", "F", "W", "I"}

\* texts typed into the credits input
CreditInputs == {Cr05, <<"-", "1">>, << >>}

\* texts typed into the code input
CodeInputs == {<<"c", "s", "1">>, <<"C", "S", " ", "1">>, MA2}

\* texts typed into the title and the semester-name inputs
TitleInputs == {"Calculus"}

NameInputs == {<<"Renamed", 0>>}

(* ------------------------------- state -------------------------------- *)

VARIABLES
    data,                \* App: useState<TranscriptData | null>
    isLoading,           \* App: useState(false)
    error,               \* App: useState<string | null>
    pending,             \* the file of the handleFileUpload in flight, or Null
    overtaken,           \* handleReset or startManualMode ran since it started
    simulatedSemesters,  \* TranscriptView: useState<Semester[]>
    now,                 \* Date.now()
    edits,               \* edit operations applied since the record was set
    localStorage,        \* tracked client: window.localStorage
    uuids,               \* tracked client: crypto.randomUUID() calls so far
    requests,            \* POST /api/metrics/track requests under way
    metrics,             \* server: the Metric collection
    steps,               \* steps taken by the tracked client
    saved,               \* server: documents given an _id so far
    adminRequest,        \* server: the admin request being handled, or Null
    isAuthenticated      \* AdminDashboard: useState(false)

vars == <<data, isLoading, error, pending, overtaken, simulatedSemesters, now, edits,
          localStorage, uuids, requests, metrics, steps,
          saved, adminRequest, isAuthenticated>>

\* the state of the transcript view and of its page
appVars == <<data, isLoading, error, pending, overtaken, simulatedSemesters, edits>>

\* the state of usage tracking: browser storage, network and server
trackingVars == <<localStorage, uuids, requests, metrics, steps, saved>>

\* the state of the admin page and of the admin routes
adminVars == <<adminRequest, isAuthenticated>>

Init ==
    /\ data = Null
    /\ isLoading = FALSE
    /\ error = NoError
    /\ pending = Null
    /\ overtaken = FALSE
    /\ simulatedSemesters = << >>
    /\ now = 1
    /\ edits = 0
    /\ localStorage = << >>
    /\ uuids = 0
    /\ requests = << >>
    /\ metrics = << >>
    /\ steps = 0
    /\ saved = 0
    /\ adminRequest = Null
    /\ isAuthenticated = FALSE

\* useState(data.semesters) at mount and the effect on [data]
SemestersOf(d) == IF d = Null THEN << >> ELSE d.semesters

\* sem.id.startsWith('future-')
IsFuture(id) == id[1] = "future-sem"

\* student.studentNo === 'MANUAL-ENTRY'
IsManual(d) == d # Null /\ d.student.studentNo = <<"MANUAL-ENTRY">>

\* the transcript view is rendered: isLoading ? loader : data ? view : landing
ViewShown == ~isLoading /\ data # Null

(* ---------------------------- App.tsx --------------------------------- *)

\* the clock advances
Tick ==
    /\ now < MaxClock
    /\ now' = now + 1
    /\ UNCHANGED <<data, isLoading, error, pending, overtaken, simulatedSemesters, edits>>
    /\ UNCHANGED <<trackingVars, adminVars>>

\* handleFileUpload up to its await; the dropzone is on the landing page only
handleFileUploadStart ==
    /\ ~isLoading /\ data = Null
    /\ \E text \in Transcripts : pending' = [file |-> text]
    /\ overtaken' = FALSE
    /\ isLoading' = TRUE
    /\ error' = NoError
    /\ UNCHANGED <<data, simulatedSemesters, now, edits>>
    /\ UNCHANGED <<trackingVars, adminVars>>

\* handleFileUploadFinish without the check of parsedData.semesters.length
handleFileUploadFinishUnchecked ==
    /\ pending # Null
    /\ LET r == parseTranscript(pending.file)
       IN  IF r.ok
           THEN /\ data' = r.value
                /\ edits' = 0
                /\ UNCHANGED error
           ELSE /\ error' = r.error
                /\ UNCHANGED <<data, edits>>
    /\ isLoading' = FALSE
    /\ pending' = Null
    /\ overtaken' = FALSE
    /\ simulatedSemesters' = SemestersOf(data')
    /\ UNCHANGED now
    /\ UNCHANGED <<trackingVars, adminVars>>

\* handleFileUpload from the await on: parse, setData or setError, finally
handleFileUploadFinish ==
    /\ pending # Null
    /\ LET r == parseTranscript(pending.file)
       IN  IF r.ok /\ Len(r.value.semesters) # 0
           THEN /\ data' = r.value
                /\ edits' = 0
                /\ UNCHANGED error
           ELSE /\ error' = IF r.ok THEN "Could not find any semester data"
                                    ELSE r.error
                /\ UNCHANGED <<data, edits>>
    /\ isLoading' = FALSE
    /\ pending' = Null
    /\ overtaken' = FALSE
    /\ simulatedSemesters' = SemestersOf(data')
    /\ UNCHANGED now
    /\ UNCHANGED <<trackingVars, adminVars>>

ManualRecord(t) ==
    [student   |-> [name |-> <<"Guest User">>, fatherName |-> <<"-">>,
                    studentNo |-> <<"MANUAL-ENTRY">>,
                    program |-> <<"B.Sc Software Engineering">>,
                    regStatus |-> <<"Active">>],
     semesters |-> << [id           |-> <<"future-sem", t>>,
                       name         |-> <<"Semester", 1>>,
                       courses      |-> << [code     |-> <<"C", "O", "U", "R", "S", "E", "-", "1">>,
                                            title    |-> "",
                                            credits  |-> 6,
                                            grade    |-> "C",
                                            points   |-> 48,
                                            isRepeat |-> FALSE] >>,
                       sgpa         |-> <<2, 1>>,
                       totalPoints  |-> 48,
                       totalCredits |-> 6] >>]

startManualMode ==
    /\ data' = ManualRecord(now)
    /\ simulatedSemesters' = SemestersOf(data')
    /\ edits' = 0
    /\ overtaken' = (pending # Null)
    /\ UNCHANGED <<isLoading, error, pending, now>>
    /\ UNCHANGED <<trackingVars, adminVars>>

handleReset ==
    /\ data' = Null
    /\ error' = NoError
    /\ simulatedSemesters' = << >>
    /\ edits' = 0
    /\ overtaken' = (pending # Null)
    /\ UNCHANGED <<isLoading, pending, now>>
    /\ UNCHANGED <<trackingVars, adminVars>>

(* ----------------------- TranscriptView.tsx --------------------------- *)

\* prev.map(sem => sem.id !== semId ? sem
\*                  : recalculateSemester({ ...sem, courses: newCourses }))
\* where newCourses[i] is the new course list computed from semester i
MapSemester(prev, semId, newCourses) ==
    [i \in 1..Len(prev) |->
        IF prev[i].id # semId THEN prev[i]
        ELSE recalculateSemester([prev[i] EXCEPT !.courses = newCourses[i]])]

GradeChanged(course, newGrade) ==
    [course EXCEPT !.grade = newGrade,
                   !.points = CoursePoints(newGrade, course.credits)]

\* handleGradeChange that stores the new courses without recalculateSemester
GradeChangeNoRecalc(prev, semId, courseCode, newGrade) ==
    [i \in 1..Len(prev) |->
        IF prev[i].id # semId THEN prev[i]
        ELSE [prev[i] EXCEPT !.courses =
                 [k \in 1..Len(prev[i].courses) |->
                     IF prev[i].courses[k].code # courseCode
                     THEN prev[i].courses[k]
                     ELSE GradeChanged(prev[i].courses[k], newGrade)]]]

handleGradeChangeTo(prev, semId, courseCode, newGrade) ==
    MapSemester(prev, semId,
        [i \in 1..Len(prev) |->
            [k \in 1..Len(prev[i].courses) |->
                IF prev[i].courses[k].code # courseCode THEN prev[i].courses[k]
                ELSE GradeChanged(prev[i].courses[k], newGrade)]])

\* the credits branch without the recomputation of points
CreditsEditedKeepPoints(course, value) ==
    LET val == ParseFloat(value)
    IN  [course EXCEPT !.credits = IF val.nan THEN 0 ELSE val.val]

\* the branch field === 'credits'
CreditsEdited(course, value) ==
    LET val     == ParseFloat(value)
        credits == IF val.nan THEN 0 ELSE val.val
    IN  [course EXCEPT !.credits = credits,
                       !.points = CoursePoints(course.grade, credits)]

CourseEdited(course, field, value) ==
    CASE field = "credits" -> CreditsEdited(course, value)
      [] field = "code"    -> [course EXCEPT !.code = value]
      [] field = "title"   -> [course EXCEPT !.title = value]

handleCourseEditTo(prev, semId, courseCode, field, value) ==
    MapSemester(prev, semId,
        [i \in 1..Len(prev) |->
            [k \in 1..Len(prev[i].courses) |->
                IF prev[i].courses[k].code # courseCode THEN prev[i].courses[k]
                ELSE CourseEdited(prev[i].courses[k], field, value)]])

\* code: `NEW-${Date.now()}`
NewCourse(t) ==
    [code     |-> <<"N", "E", "W", "-">> \o NumStr(t),
     title    |-> "",
     credits  |-> 6,
     grade    |-> "C",
     points   |-> 48,
     isRepeat |-> FALSE]

addCourseTo(prev, semId, t) ==
    MapSemester(prev, semId,
        [i \in 1..Len(prev) |-> Append(prev[i].courses, NewCourse(t))])

\* name: `Future Semester ${simulatedSemesters.length + 1}`
NewSemester(t, n) ==
    [id           |-> <<"future-sem", t>>,
     name         |-> <<"Future Semester", n + 1>>,
     courses      |-> << >>,
     sgpa         |-> <<0, 1>>,
     totalPoints  |-> 0,
     totalCredits |-> 0]

\* addSemesterTo that puts the new semester first: [newSem, ...prev]
addSemesterFirst(prev, t) ==
    addCourseTo(<<NewSemester(t, Len(prev))>> \o prev, <<"future-sem", t>>, t)

\* setSimulatedSemesters(prev => [...prev, newSem]); addCourse(newId)
addSemesterTo(prev, t) ==
    addCourseTo(Append(prev, NewSemester(t, Len(prev))), <<"future-sem", t>>, t)

deleteCourseFrom(prev, semId, courseCode) ==
    MapSemester(prev, semId,
        [i \in 1..Len(prev) |->
            SelectSeq(prev[i].courses, LAMBDA c : c.code # courseCode)])

\* prev.filter(s => s.id !== semId)
deleteSemesterFrom(prev, semId) == SelectSeq(prev, LAMBDA s : s.id # semId)

\* prev.map(s => s.id === sem.id ? { ...s, name: e.target.value } : s)
renameSemesterTo(prev, semId, value) ==
    [i \in 1..Len(prev) |->
        IF prev[i].id = semId THEN [prev[i] EXCEPT !.name = value] ELSE prev[i]]

\* Edit that writes through to the array of the loaded record, as a handler
\* changing prev in place would
EditInPlace(next) ==
    /\ ViewShown
    /\ edits < MaxEdits
    /\ simulatedSemesters' = next
    /\ data' = [data EXCEPT !.semesters = next]
    /\ edits' = edits + 1
    /\ UNCHANGED <<isLoading, error, pending, overtaken, now>>
    /\ UNCHANGED <<trackingVars, adminVars>>

\* an edit handler runs: the view is shown and the edit budget is not spent
Edit(next) ==
    /\ ViewShown
    /\ edits < MaxEdits
    /\ simulatedSemesters' = next
    /\ edits' = edits + 1
    /\ UNCHANGED <<data, isLoading, error, pending, overtaken, now>>
    /\ UNCHANGED <<trackingVars, adminVars>>

\* the rows the view renders: a semester and one of its courses
Rows ==
    {<<i, k>> \in (1..Len(simulatedSemesters)) \X (1..3) :
        k <= Len(simulatedSemesters[i].courses)}

handleGradeChange ==
    \E r \in Rows, newGrade \in GradeInputs :
        LET sem == simulatedSemesters[r[1]]
        IN  Edit(handleGradeChangeTo(simulatedSemesters, sem.id,
                                     sem.courses[r[2]].code, newGrade))

handleCourseEdit ==
    \E r \in Rows :
        LET sem  == simulatedSemesters[r[1]]
            code == sem.courses[r[2]].code
        IN  \/ \E value \in CreditInputs :
                 Edit(handleCourseEditTo(simulatedSemesters, sem.id, code, "credits", value))
            \/ \E value \in CodeInputs :
                 Edit(handleCourseEditTo(simulatedSemesters, sem.id, code, "code", value))
            \/ \E value \in TitleInputs :
                 Edit(handleCourseEditTo(simulatedSemesters, sem.id, code, "title", value))

addSemester == Edit(addSemesterTo(simulatedSemesters, now))

\* the Add Course button of a future semester
addCourse ==
    \E i \in 1..Len(simulatedSemesters) :
        /\ IsFuture(simulatedSemesters[i].id)
        /\ Edit(addCourseTo(simulatedSemesters, simulatedSemesters[i].id, now))

\* the X button of a course row of a future semester
deleteCourse ==
    \E r \in Rows :
        LET sem == simulatedSemesters[r[1]]
        IN  /\ IsFuture(sem.id)
            /\ Edit(deleteCourseFrom(simulatedSemesters, sem.id, sem.courses[r[2]].code))

\* the Remove Semester button of a future semester
deleteSemester ==
    \E i \in 1..Len(simulatedSemesters) :
        /\ IsFuture(simulatedSemesters[i].id)
        /\ Edit(deleteSemesterFrom(simulatedSemesters, simulatedSemesters[i].id))

\* the name input of a future semester
renameSemester ==
    \E i \in 1..Len(simulatedSemesters), value \in NameInputs :
        /\ IsFuture(simulatedSemesters[i].id)
        /\ Edit(renameSemesterTo(simulatedSemesters, simulatedSemesters[i].id, value))

\* the Reset Projection button: setSimulatedSemesters(data.semesters)
resetProjection ==
    /\ ~IsManual(data)
    /\ Edit(SemestersOf(data))

Next ==
    \/ Tick
    \/ handleFileUploadStart
    \/ handleFileUploadFinish
    \/ startManualMode
    \/ handleReset
    \/ handleGradeChange
    \/ handleCourseEdit
    \/ addSemester
    \/ addCourse
    \/ deleteCourse
    \/ deleteSemester
    \/ renameSemester
    \/ resetProjection

Spec == Init /\ [][Next]_vars

(* ====================================================================== *)
(* Usage tracking: the useTracking hook and trackEvent of the client, and *)
(* the /api/metrics/track route of the server.  An object is a function   *)
(* from the names of its properties; an identifier made by                *)
(* crypto.randomUUID() is <<"uuid", n>> for the n-th call.                *)
(* ====================================================================== *)

\* tracking calls and clock lapses of one run of the tracked client
MaxSteps == 4

\* const SESSION_TIMEOUT = 30 * 60 * 1000
SESSION_TIMEOUT == 1800000

\* a value, and undefined
Some(v) == [def |-> TRUE, val |-> v]

Undefined == [def |-> FALSE, val |-> << >>]

\* the object JSON.stringify writes: a property that is undefined is left out
Json(props) == [k \in {x \in DOMAIN props : props[x].def} |-> props[k].val]

\* { ...obj, key: value }, and localStorage.setItem(key, value)
Put(obj, key, value) ==
    [k \in DOMAIN obj \cup {key} |-> IF k = key THEN value ELSE obj[k]]

\* localStorage.getItem(key) is not null
HasItem(storage, key) == key \in DOMAIN storage

\* trackEvent(data): the requests it posts
trackEvent(storage, payload) ==
    IF HasItem(storage, "transgpa_user_id")
    THEN <<Put(payload, "userId", storage["transgpa_user_id"])>>
    ELSE << >>

\* getSessionId that also starts a new session at the timeout to the millisecond
getSessionIdAtTimeout(storage, t, n) ==
    LET lastActive == IF HasItem(storage, "transgpa_last_active")
                      THEN storage["transgpa_last_active"] ELSE 0
        fresh      == \/ ~HasItem(storage, "transgpa_session_id")
                      \/ t - lastActive >= SESSION_TIMEOUT
        sessionId  == IF fresh THEN <<"uuid", n + 1>>
                      ELSE storage["transgpa_session_id"]
        stored     == IF fresh THEN Put(storage, "transgpa_session_id", sessionId)
                      ELSE storage
    IN  [sessionId |-> sessionId,
         posted    |-> IF fresh
                       THEN trackEvent(stored, [eventType |-> "SESSION_START",
                                                sessionId |-> sessionId])
                       ELSE << >>,
         storage   |-> Put(stored, "transgpa_last_active", t),
         uuids     |-> IF fresh THEN n + 1 ELSE n]

\* getSessionId() at time t after n calls of randomUUID: the id returned,
\* the storage and the count of calls afterwards, the requests posted
getSessionId(storage, t, n) ==
    LET lastActive == IF HasItem(storage, "transgpa_last_active")
                      THEN storage["transgpa_last_active"] ELSE 0
        fresh      == \/ ~HasItem(storage, "transgpa_session_id")
                      \/ t - lastActive > SESSION_TIMEOUT
        sessionId  == IF fresh THEN <<"uuid", n + 1>>
                      ELSE storage["transgpa_session_id"]
        stored     == IF fresh THEN Put(storage, "transgpa_session_id", sessionId)
                      ELSE storage
    IN  [sessionId |-> sessionId,
         posted    |-> IF fresh
                       THEN trackEvent(stored, [eventType |-> "SESSION_START",
                                                sessionId |-> sessionId])
                       ELSE << >>,
         storage   |-> Put(stored, "transgpa_last_active", t),
         uuids     |-> IF fresh THEN n + 1 ELSE n]

\* the files handed to trackUpload
FileInputs == {[name |-> "transcript.pdf", type |-> "application/pdf", size |-> 1024]}

\* the studentInfo handed to trackUpload: left out, or the StudentInfo of
\* the parsed transcript
StudentInfoInputs ==
    {Undefined,
     Some([name |-> <<"Ali", "Khan">>, fatherName |-> <<"Khan">>,
           studentNo |-> <<"2021001">>, cgpa |-> <<"", 350>>])}

\* studentInfo?.[key]
OptionalMember(studentInfo, key) ==
    IF studentInfo.def THEN Some(studentInfo.val[key]) ELSE Undefined

\* the arguments of trackParseResult: success, pageCount, error
ParseResultInputs ==
    {<<TRUE, Some(2), Undefined>>,
     <<FALSE, Undefined, Some("No semester headers found")>>}

\* a step of the tracked client that leaves the page and the server alone
ClientStep(session, posted) ==
    /\ steps < MaxSteps
    /\ steps' = steps + 1
    /\ localStorage' = session.storage
    /\ uuids' = session.uuids
    /\ requests' = requests \o session.posted \o posted
    /\ UNCHANGED <<metrics, saved, now>>
    /\ UNCHANGED <<appVars, adminVars>>

\* time passes: a moment, the session timeout to the millisecond, or more
Lapse ==
    /\ steps < MaxSteps
    /\ steps' = steps + 1
    /\ \E d \in {1, SESSION_TIMEOUT, SESSION_TIMEOUT + 1} : now' = now + d
    /\ UNCHANGED <<localStorage, uuids, requests, metrics, saved>>
    /\ UNCHANGED <<appVars, adminVars>>

\* the effect of useTracking on mount
mountTracking ==
    LET known  == HasItem(localStorage, "transgpa_user_id")
        withId == IF known THEN localStorage
                  ELSE Put(localStorage, "transgpa_user_id", <<"uuid", uuids + 1>>)
    IN  ClientStep(getSessionId(withId, now, IF known THEN uuids ELSE uuids + 1), << >>)

trackUpload ==
    /\ HasItem(localStorage, "transgpa_user_id")
    /\ \E file \in FileInputs, studentInfo \in StudentInfoInputs :
          LET session == getSessionId(localStorage, now, uuids)
          IN  ClientStep(session,
                  trackEvent(session.storage,
                      [eventType |-> "UPLOAD",
                       sessionId |-> session.sessionId,
                       metadata  |->
                           Json([fileType    |-> Some(file.type),
                                 fileName    |-> Some(file.name),
                                 fileSize    |-> Some(file.size),
                                 studentName |-> OptionalMember(studentInfo, "name"),
                                 fatherName  |-> OptionalMember(studentInfo, "fatherName"),
                                 studentNo   |-> OptionalMember(studentInfo, "studentNo"),
                                 cgpa        |-> OptionalMember(studentInfo, "cgpa")])]))

trackParseResult ==
    /\ HasItem(localStorage, "transgpa_user_id")
    /\ \E args \in ParseResultInputs :
          LET session == getSessionId(localStorage, now, uuids)
          IN  ClientStep(session,
                  trackEvent(session.storage,
                      [eventType |-> IF args[1] THEN "PARSE_SUCCESS" ELSE "PARSE_FAIL",
                       sessionId |-> session.sessionId,
                       metadata  |-> Json([pageCount |-> args[2], error |-> args[3]])]))

\* the paths of metadata in MetricSchema
MetadataPaths ==
    {"fileType", "fileName", "fileSize", "pageCount", "parseDuration", "error",
     "path", "studentName", "fatherName", "studentNo", "cgpa"}

\* new Metric({ userId, sessionId, eventType, metadata, ... }): the paths of
\* the schema are kept.  deviceInfo, location and timestamp come from the
\* request's headers, its address and the server's clock, which the model
\* leaves out.
NewMetric(body) ==
    [userId    |-> body.userId,
     sessionId |-> body.sessionId,
     eventType |-> body.eventType,
     metadata  |-> IF "metadata" \in DOMAIN body
                   THEN [k \in DOMAIN body.metadata \cap MetadataPaths |->
                            body.metadata[k]]
                   ELSE << >>]

\* router.post('/track'): one request arrives and its metric is saved; the
\* document gets its _id, <<"oid", n>> for the n-th document
postTrack ==
    /\ \E i \in 1..Len(requests) :
          /\ metrics' = Append(metrics, Put(NewMetric(requests[i]), "_id",
                                            <<"oid", saved + 1>>))
          /\ requests' = SubSeq(requests, 1, i - 1)
                            \o SubSeq(requests, i + 1, Len(requests))
    /\ saved' = saved + 1
    /\ UNCHANGED <<localStorage, uuids, steps, now>>
    /\ UNCHANGED <<appVars, adminVars>>

TrackingNext ==
    \/ Lapse
    \/ mountTracking
    \/ trackUpload
    \/ trackParseResult
    \/ postTrack

TrackingSpec == Init /\ [][TrackingNext]_vars

(* ====================================================================== *)
(* Admin: the login of the AdminDashboard page and the routes             *)
(* DELETE /api/admin/analytics/uploads and POST .../cleanup.  The routes  *)
(* are mounted without middleware, and the requests of the page carry no  *)
(* credentials, so a request is the same whoever sends it; the model      *)
(* keeps with a request whether the page sent it, which the server does   *)
(* not see.  A route runs in two steps, one for each query it awaits.     *)
(* ====================================================================== *)

\* events posted by browsers while the admin routes are watched
MaxPosts == 3

\* the browsers that post events: the user id in their storage
Browsers == {<<"uuid", 1>>, <<"uuid", 2>>}

\* the events a browser posts
EventInputs == {"SESSION_START", "UPLOAD"}

\* the credentials typed into the login form: the configured ones or others
LoginInputs == {"configured", "other"}

\* a browser calls trackEvent
postEvent ==
    /\ steps < MaxPosts
    /\ steps' = steps + 1
    /\ \E userId \in Browsers, eventType \in EventInputs :
          requests' = requests \o
              trackEvent([transgpa_user_id |-> userId],
                         [eventType |-> eventType, sessionId |-> <<"session", userId[2]>>])
    /\ UNCHANGED <<localStorage, uuids, metrics, saved, now>>
    /\ UNCHANGED <<appVars, adminVars>>

\* authEmail === VITE_ADMIN_EMAIL && authPass === VITE_ADMIN_PASSWORD
handleLogin ==
    /\ ~isAuthenticated
    /\ \E typed \in LoginInputs :
          isAuthenticated' = (typed = "configured")
    /\ UNCHANGED adminRequest
    /\ UNCHANGED <<trackingVars, appVars, now>>

handleLogout ==
    /\ isAuthenticated
    /\ isAuthenticated' = FALSE
    /\ UNCHANGED adminRequest
    /\ UNCHANGED <<trackingVars, appVars, now>>

\* a request reaches an admin route: from the page, which shows its
\* buttons only when isAuthenticated, or from any other HTTP client
Arrives(fromPage) == adminRequest = Null /\ (fromPage => isAuthenticated)

\* Metric.distinct('userId', { eventType: 'UPLOAD' })
UploadUsers(collection) ==
    {collection[i].userId :
        i \in {k \in 1..Len(collection) : collection[k].eventType = "UPLOAD"}}

\* POST /cleanup up to its second await: uploadUsers is read
cleanupStart ==
    /\ \E fromPage \in BOOLEAN :
          /\ Arrives(fromPage)
          /\ adminRequest' = [route |-> "cleanup", fromPage |-> fromPage,
                              userIds |-> UploadUsers(metrics), ids |-> {}]
    /\ UNCHANGED isAuthenticated
    /\ UNCHANGED <<trackingVars, appVars, now>>

\* a deleteMany of an admin route has run: the request is answered
AdminDelete(kept) ==
    /\ metrics' = kept
    /\ adminRequest' = Null
    /\ UNCHANGED isAuthenticated
    /\ UNCHANGED <<localStorage, uuids, requests, steps, saved, now>>
    /\ UNCHANGED appVars

\* POST /cleanup: Metric.deleteMany({ userId: { $nin: uploadUsers } })
cleanupFinish ==
    /\ adminRequest # Null
    /\ adminRequest.route = "cleanup"
    /\ AdminDelete(SelectSeq(metrics, LAMBDA m : m.userId \in adminRequest.userIds))

\* DELETE /uploads up to the await of its deleteMany: with cascade the
\* users of the uploads were found
deleteUploadsStart ==
    /\ \E fromPage \in BOOLEAN, i \in 1..Len(metrics), cascade \in BOOLEAN :
          LET ids == {metrics[i]._id}
          IN  /\ Arrives(fromPage)
              /\ adminRequest' =
                    [route    |-> IF cascade THEN "cascade" ELSE "uploads",
                     fromPage |-> fromPage,
                     userIds  |-> IF cascade
                                  THEN {metrics[k].userId :
                                           k \in {x \in 1..Len(metrics) : metrics[x]._id \in ids}}
                                  ELSE {},
                     ids      |-> ids]
    /\ UNCHANGED isAuthenticated
    /\ UNCHANGED <<trackingVars, appVars, now>>

\* DELETE /uploads: deleteMany by userId with cascade, by _id without
deleteUploadsFinish ==
    /\ adminRequest # Null
    /\ adminRequest.route \in {"cascade", "uploads"}
    /\ AdminDelete(
          IF adminRequest.route = "cascade"
          THEN SelectSeq(metrics, LAMBDA m : m.userId \notin adminRequest.userIds)
          ELSE SelectSeq(metrics, LAMBDA m : m._id \notin adminRequest.ids))

AdminNext ==
    \/ postEvent
    \/ postTrack
    \/ handleLogin
    \/ handleLogout
    \/ cleanupStart
    \/ cleanupFinish
    \/ deleteUploadsStart
    \/ deleteUploadsFinish

AdminSpec == Init /\ [][AdminNext]_vars

(* ====================================================================== *)
(* Properties.  The ledger functions are applied to the semester list of  *)
(* every reachable state.  The definitions below restate what the claims  *)
(* expect without going through the operators that model the code.        *)
(* ====================================================================== *)

\* the courses of the current list in visiting order
Flat == Flatten(simulatedSemesters)

\* the attempts (positions of flat) of the course at position i
Attempts(flat, i) ==
    LET key == NormalizeCode(flat[i].code)
    IN  {j \in 1..Len(flat) : NormalizeCode(flat[j].code) = key}

\* the attempts calculateCGPA leaves in its Map
WinnerRefs(flat) ==
    LET map == BuildCourseMap(flat, Len(flat))
    IN  {map[k].ref : k \in 1..Len(map)}

IsWI(course) == course.grade \in {"W", "I"}

\* the attempts whose credits and points calculateCGPA adds up
CountedRefs(flat) == {i \in WinnerRefs(flat) : ~IsWI(flat[i])}

\* grade points per credit as the exact number the code divides out:
\* points / credits, or points / 1 for zero credits, as <<num, den>>, den > 0
GradePointsPerCredit(course) ==
    LET d == IF course.credits = 0 THEN 8 ELSE 4 * course.credits
    IN  IF d < 0 THEN <<-course.points, -d>> ELSE <<course.points, d>>

\* the ratio the specification names: points / max(credits, 1)
PointsPerMaxCredit(course) ==
    IF course.credits < 2 THEN <<course.points, 8>>
    ELSE <<course.points, 4 * course.credits>>

\* a > b and a = b for fractions with positive denominators
Higher(a, b) == a[1] * b[2] > b[1] * a[2]

SameRatio(a, b) == a[1] * b[2] = b[1] * a[2]

RECURSIVE SumOver(_, _)
\* the sum of val[i] over the finite set S of arguments
SumOver(S, val) ==
    IF S = {} THEN 0
    ELSE LET i == CHOOSE x \in S : TRUE IN val[i] + SumOver(S \ {i}, val)

CreditsOf(flat) == [i \in 1..Len(flat) |-> flat[i].credits]

PointsOf(flat) == [i \in 1..Len(flat) |-> flat[i].points]

(* C1: for every normalized code with at least one attempt graded other   *)
(* than W/I, exactly one attempt of it enters totalCredits/totalPoints,   *)
(* and no other attempt of that code has a higher grade points per credit *)
C1_BestAttemptCountedOnce ==
    LET flat    == Flat
        counted == CountedRefs(flat)
        stats   == calculateCGPA(simulatedSemesters)
    IN  /\ stats.totalCredits = SumOver(counted, CreditsOf(flat))
        /\ stats.totalPoints = SumOver(counted, PointsOf(flat))
        /\ \A i \in 1..Len(flat) :
              (\E j \in Attempts(flat, i) : ~IsWI(flat[j])) =>
                  /\ Cardinality(counted \cap Attempts(flat, i)) = 1
                  /\ \A w \in counted \cap Attempts(flat, i), j \in Attempts(flat, i) :
                        ~Higher(GradePointsPerCredit(flat[j]),
                                GradePointsPerCredit(flat[w]))

\* the attempt the Map map holds for the code of course n (0 when none)
Held(map, flat, n) ==
    LET k == MapFind(map, NormalizeCode(flat[n].code))
    IN  IF k = 0 THEN 0 ELSE map[k].ref

(* C2, as stated: within a group the first course seen is kept unless a   *)
(* later one has a strictly higher points / max(credits, 1), in which     *)
(* case the later one replaces it, for every credit value                 *)
C2_ReplacedIffHigherMaxRatio ==
    LET flat == Flat
    IN  \A n \in 1..Len(flat) :
            LET before == BuildCourseMap(flat, n - 1)
                after  == BuildCourseMap(flat, n)
                held   == Held(before, flat, n)
            IN  held # 0 =>
                    (Held(after, flat, n) = n
                        <=> Higher(PointsPerMaxCredit(flat[n]),
                                   PointsPerMaxCredit(flat[held])))

(* C2, amended: the first course seen of a group is kept unless a later   *)
(* one has a strictly higher points / (credits, or 1 when credits is 0),  *)
(* in which case the later one replaces it, for every credit value        *)
C2_ReplacedIffHigherRatio ==
    LET flat == Flat
    IN  \A n \in 1..Len(flat) :
            LET before == BuildCourseMap(flat, n - 1)
                after  == BuildCourseMap(flat, n)
                held   == Held(before, flat, n)
            IN  /\ held = 0 => Held(after, flat, n) = n
                /\ held # 0 =>
                      /\ Held(after, flat, n) = n
                            <=> Higher(GradePointsPerCredit(flat[n]),
                                       GradePointsPerCredit(flat[held]))
                      /\ Held(after, flat, n) # n => after = before

\* a half-credit A replaced a three-credit attempt of a lower grade
C2_Witness ==
    LET flat == Flat
    IN  \E n \in 1..Len(flat) :
            LET held == Held(BuildCourseMap(flat, n - 1), flat, n)
            IN  /\ held # 0
                /\ Held(BuildCourseMap(flat, n), flat, n) = n
                /\ flat[n].credits = 1
                /\ flat[held].credits = 6
                /\ ~Higher(PointsPerMaxCredit(flat[n]), PointsPerMaxCredit(flat[held]))

(* C3: of two attempts of one normalized code with equal grade points per *)
(* credit the later one is never the attempt kept, however many attempts  *)
(* the code has                                                           *)
C3_TieKeepsEarlier ==
    LET flat    == Flat
        winners == WinnerRefs(flat)
    IN  \A i \in 1..Len(flat) : \A j \in Attempts(flat, i) :
            (i < j /\ SameRatio(GradePointsPerCredit(flat[i]),
                                GradePointsPerCredit(flat[j])))
                => j \notin winners

\* three attempts of one code, the first two tied at the top: the first is kept
C3_Witness ==
    LET flat == Flat
    IN  \E i \in WinnerRefs(flat) :
            /\ Cardinality(Attempts(flat, i)) >= 3
            /\ \E j \in Attempts(flat, i) :
                  /\ i < j
                  /\ flat[j].grade # flat[i].grade
                  /\ SameRatio(GradePointsPerCredit(flat[i]),
                               GradePointsPerCredit(flat[j]))

Progressions == calculateSemesterProgressions(simulatedSemesters)

(* C4: progression point i carries the id of semester i and the cgpa and  *)
(* totalCredits of calculateCGPA applied to the semesters up to i         *)
C4_ProgressionIsPrefixCgpa ==
    LET prog == Progressions
    IN  /\ Len(prog) = Len(simulatedSemesters)
        /\ \A i \in 1..Len(simulatedSemesters) :
              LET stats == calculateCGPA(SubSeq(simulatedSemesters, 1, i))
              IN  /\ prog[i].semesterId = simulatedSemesters[i].id
                  /\ prog[i].cumulativeCGPA = stats.cgpa
                  /\ prog[i].cumulativeCredits = stats.totalCredits

\* three semesters whose points differ from each other and from the whole
\* list's CGPA, the last retaking a course of the first
C4_Witness ==
    /\ Len(simulatedSemesters) >= 2
    /\ Progressions[1].cumulativeCGPA # Progressions[2].cumulativeCGPA
    /\ Progressions[1].cumulativeCredits = Progressions[2].cumulativeCredits
    /\ \E c \in 1..Len(simulatedSemesters[1].courses) :
          \E d \in 1..Len(simulatedSemesters[2].courses) :
              NormalizeCode(simulatedSemesters[1].courses[c].code)
                  = NormalizeCode(simulatedSemesters[2].courses[d].code)

(* C5: a step that leaves the first i semesters as they were (it edits,   *)
(* adds or removes courses or semesters only at later positions) leaves   *)
(* the progression points 1..i unchanged                                  *)
C5_LaterChangeKeepsEarlierPoints ==
    [][\A i \in 1..Len(simulatedSemesters) :
          (/\ i <= Len(simulatedSemesters')
           /\ SubSeq(simulatedSemesters', 1, i) = SubSeq(simulatedSemesters, 1, i))
              => calculateSemesterProgressions(simulatedSemesters')[i] = Progressions[i]]_vars

\* the second semester was changed into a retake that moved the CGPA of the
\* whole list, and the first progression point is the one of the loaded record
C5_Witness ==
    /\ ViewShown
    /\ Len(simulatedSemesters) >= 2
    /\ Len(data.semesters) >= 2
    /\ simulatedSemesters[1] = data.semesters[1]
    /\ simulatedSemesters[2] # data.semesters[2]
    /\ calculateCGPA(simulatedSemesters).cgpa # calculateCGPA(data.semesters).cgpa
    /\ calculateCGPA(simulatedSemesters).cgpa # Progressions[1].cumulativeCGPA
    /\ Progressions[1] = calculateSemesterProgressions(data.semesters)[1]

\* what a semester's derived fields are expected to be: the sums over the
\* courses not graded W or I, and their quotient
ExpectedCredits(sem) ==
    SumOver({k \in 1..Len(sem.courses) : ~IsWI(sem.courses[k])},
            [k \in 1..Len(sem.courses) |-> sem.courses[k].credits])

ExpectedPoints(sem) ==
    SumOver({k \in 1..Len(sem.courses) : ~IsWI(sem.courses[k])},
            [k \in 1..Len(sem.courses) |-> sem.courses[k].points])

ExpectedSgpa(sem) ==
    IF ExpectedCredits(sem) > 0
    THEN Frac(ExpectedPoints(sem), 4 * ExpectedCredits(sem))
    ELSE <<0, 1>>

\* the semesters of the loaded record, as a set
LoadedSemesters == {SemestersOf(data)[i] : i \in 1..Len(SemestersOf(data))}

(* C6, as stated: in every reachable state each semester's stored sgpa,   *)
(* totalCredits and totalPoints equal what recalculateSemester computes   *)
(* from its current course list                                           *)
C6_StoredEqualsRecalculated ==
    \A i \in 1..Len(simulatedSemesters) :
        LET sem == simulatedSemesters[i]
        IN  /\ sem.sgpa = recalculateSemester(sem).sgpa
            /\ sem.totalCredits = recalculateSemester(sem).totalCredits
            /\ sem.totalPoints = recalculateSemester(sem).totalPoints

(* C6, amended: in every reachable state each semester's stored           *)
(* totalCredits and totalPoints equal what recalculateSemester computes   *)
(* from its current course list, and so does its stored sgpa unless the   *)
(* semester is still exactly as the parser produced it, where sgpa is the *)
(* SGPA the document prints (0 when it prints none)                       *)
C6_StoredEqualsRecalculatedOnceEdited ==
    \A i \in 1..Len(simulatedSemesters) :
        LET sem == simulatedSemesters[i]
        IN  /\ sem.totalCredits = recalculateSemester(sem).totalCredits
            /\ sem.totalPoints = recalculateSemester(sem).totalPoints
            /\ \/ sem.sgpa = recalculateSemester(sem).sgpa
               \/ sem \in LoadedSemesters /\ ~IsFuture(sem.id)

\* a semester still as parsed whose printed SGPA is not the recomputed one,
\* next to a semester an edit has recomputed to a new sgpa
C6_Witness ==
    /\ ViewShown
    /\ \E i \in 1..Len(simulatedSemesters) :
          /\ simulatedSemesters[i] \in LoadedSemesters
          /\ simulatedSemesters[i].sgpa # recalculateSemester(simulatedSemesters[i]).sgpa
    /\ \E j \in 1..Len(simulatedSemesters) :
          /\ simulatedSemesters[j] \notin LoadedSemesters
          /\ simulatedSemesters[j].sgpa # data.semesters[j].sgpa
          /\ simulatedSemesters[j].sgpa = ExpectedSgpa(simulatedSemesters[j])

\* every course of the current list and of the loaded record
AllCourses ==
    {Flat[i] : i \in 1..Len(Flat)}
        \cup {Flatten(SemestersOf(data))[i] : i \in 1..Len(Flatten(SemestersOf(data)))}

(* C7: in every reachable state every course has                          *)
(* points = gradePoints(grade) * credits, and points = 0 when graded W    *)
C7_PointsAreGradeTimesCredits ==
    \A course \in AllCourses :
        IF course.grade = "W" THEN course.points = 0
        ELSE course.points = getGradePoints(course.grade) * course.credits

\* after edits: a W course with credits and no points, and a graded course
\* whose credits were typed and whose points follow them
C7_Witness ==
    /\ edits > 0
    /\ \E i \in 1..Len(Flat) :
          Flat[i].grade = "W" /\ Flat[i].credits # 0 /\ Flat[i].points = 0
    /\ \E i \in 1..Len(Flat) :
          Flat[i].grade \in {"A", "C"} /\ Flat[i].credits \in {1, -2}
              /\ Flat[i].points # 0

(* C8: recalculateSemester returns the sums of credits and points over    *)
(* the courses not graded W or I, sgpa = totalPoints / totalCredits when  *)
(* totalCredits > 0 and 0 otherwise, and nothing else of the semester     *)
(* changes; no courses or only W/I courses give 0, 0, 0                   *)
C8_RecalculateSemesterTotals ==
    \A i \in 1..Len(simulatedSemesters) :
        LET sem == simulatedSemesters[i]
            r   == recalculateSemester(sem)
        IN  /\ r.totalCredits = ExpectedCredits(sem)
            /\ r.totalPoints = ExpectedPoints(sem)
            /\ r.sgpa = ExpectedSgpa(sem)
            /\ r.id = sem.id /\ r.name = sem.name /\ r.courses = sem.courses
            /\ (\A k \in 1..Len(sem.courses) : IsWI(sem.courses[k])) =>
                  r.sgpa = <<0, 1>> /\ r.totalCredits = 0 /\ r.totalPoints = 0

\* a semester with only W/I courses that carry credits, one with no course
\* and one with positive totals and a fractional sgpa
C8_Witness ==
    /\ \E i \in 1..Len(simulatedSemesters) :
          LET sem == simulatedSemesters[i]
          IN  /\ Len(sem.courses) >= 2
              /\ \A k \in 1..Len(sem.courses) :
                    IsWI(sem.courses[k]) /\ sem.courses[k].credits > 0
    /\ \E i \in 1..Len(simulatedSemesters) :
          recalculateSemester(simulatedSemesters[i]).totalCredits > 0

\* the current list with the credits of the course in row <<i, k>> set to c
WithCredits(i, k, c) ==
    [simulatedSemesters EXCEPT ![i].courses[k].credits = c]

\* credit values a course can state, in half credits
StatedCredits == {-2, 0, 1, 6}

(* C9: a course graded W or I contributes 0 to totalCredits and           *)
(* totalPoints in both aggregations whatever its stated credits: the      *)
(* stored semester totals are the sums over the other courses, and        *)
(* calculateCGPA and every progression point are the same for every       *)
(* credit value the W/I course could state                                *)
C9_WithdrawnAndIncompleteCountNothing ==
    /\ \A i \in 1..Len(simulatedSemesters) :
          /\ simulatedSemesters[i].totalCredits = ExpectedCredits(simulatedSemesters[i])
          /\ simulatedSemesters[i].totalPoints = ExpectedPoints(simulatedSemesters[i])
    /\ LET stats == calculateCGPA(simulatedSemesters)
           prog  == Progressions
       IN  \A r \in Rows :
              IsWI(simulatedSemesters[r[1]].courses[r[2]]) =>
                  \A c \in StatedCredits :
                      LET other == WithCredits(r[1], r[2], c)
                      IN  /\ calculateCGPA(other) = stats
                          /\ calculateSemesterProgressions(other) = prog
                          /\ recalculateSemester(other[r[1]]).totalCredits
                                = simulatedSemesters[r[1]].totalCredits
    /\ \A i \in CountedRefs(Flat) : ~IsWI(Flat[i])

\* a W course and an I course, both stating three credits and both the
\* attempt kept for their code, beside courses that do count
C9_Witness ==
    /\ \E i \in WinnerRefs(Flat) : Flat[i].grade = "W" /\ Flat[i].credits = 6
    /\ \E i \in WinnerRefs(Flat) : Flat[i].grade = "I" /\ Flat[i].credits = 6
    /\ calculateCGPA(simulatedSemesters).totalCredits > 0

\* the attempt of each code that comes first among those of the highest
\* grade points per credit
BestAttempts(flat) ==
    {i \in 1..Len(flat) :
        \A j \in Attempts(flat, i) :
            /\ j < i => Higher(GradePointsPerCredit(flat[i]), GradePointsPerCredit(flat[j]))
            /\ j > i => ~Higher(GradePointsPerCredit(flat[j]), GradePointsPerCredit(flat[i]))}

(* C10: totalCredits is the sum of credits of the winning courses not     *)
(* graded W/I, F included; totalEarnedCredits is that sum without the     *)
(* courses graded F; so earned = total - credits of the winning F courses *)
C10_EarnedCreditsExcludeFailed ==
    LET flat    == Flat
        r       == calculateCGPA(simulatedSemesters)
        counted == {i \in BestAttempts(flat) : ~IsWI(flat[i])}
        failed  == {i \in counted : flat[i].grade = "F"}
    IN  /\ r.totalCredits = SumOver(counted, CreditsOf(flat))
        /\ r.totalEarnedCredits = SumOver(counted \ failed, CreditsOf(flat))
        /\ r.totalEarnedCredits = r.totalCredits - SumOver(failed, CreditsOf(flat))

\* one A and one F of three credits each: 6 credits attempted, 3 earned
C10_Witness ==
    /\ Len(Flat) = 2
    /\ Flat[1].grade = "A" /\ Flat[1].credits = 6
    /\ Flat[2].grade = "F" /\ Flat[2].credits = 6
    /\ calculateCGPA(simulatedSemesters).totalCredits = 12
    /\ calculateCGPA(simulatedSemesters).totalEarnedCredits = 6
    /\ calculateCGPA(simulatedSemesters).totalPoints = 96

\* m is the count of hundredths nearest to |n / d| (d # 0), of two equally
\* near counts the larger
NearestHundredths(m, n, d) ==
    LET e == 200 * Abs(n) - 2 * Abs(d) * m
    IN  m >= 0 /\ -Abs(d) <= e /\ e < Abs(d)

(* C11, as stated: cgpa is totalPoints / totalCredits rounded to two       *)
(* decimals, and is "0.00" when totalCredits is 0                          *)
C11_CgpaIsRoundedQuotient ==
    LET r == calculateCGPA(simulatedSemesters)
    IN  IF r.totalCredits = 0 THEN r.cgpa = <<"", 0>>
        ELSE /\ NearestHundredths(r.cgpa[2], r.totalPoints, 4 * r.totalCredits)
             /\ r.cgpa[1] = "-" <=> (r.totalPoints < 0) # (r.totalCredits < 0)

\* the same letter in either case, or the same character
SameLetter(x, y) ==
    x = y \/ \E i \in 1..26 : {x, y} = {Lower[i], Upper[i]}

RECURSIVE SameCourseCode(_, _)
\* the codes a and b differ only in hyphens, blanks and letter case
SameCourseCode(a, b) ==
    IF a # << >> /\ Head(a) \in {"-", " "} THEN SameCourseCode(Tail(a), b)
    ELSE IF b # << >> /\ Head(b) \in {"-", " "} THEN SameCourseCode(a, Tail(b))
    ELSE IF a = << >> \/ b = << >> THEN a = b
    ELSE SameLetter(Head(a), Head(b)) /\ SameCourseCode(Tail(a), Tail(b))

(* C12: calculateCGPA keeps exactly one attempt for each set of codes that *)
(* differ only in hyphens, blanks and letter case, wherever they stand in  *)
(* the list, so at most one of them is counted; codes that differ in any   *)
(* other way each keep an attempt of their own                             *)
C12_CodesMatchUpToHyphenBlankCase ==
    LET flat    == Flat
        winners == WinnerRefs(flat)
        counted == CountedRefs(flat)
    IN  \A i \in 1..Len(flat) :
            /\ Cardinality({w \in winners :
                               SameCourseCode(flat[i].code, flat[w].code)}) = 1
            /\ Cardinality({w \in counted :
                               SameCourseCode(flat[i].code, flat[w].code)}) <= 1

\* a code typed in lower case and the same code typed with a blank, in two
\* semesters, counted once, beside a different course that is counted too
C12_Witness ==
    LET flat    == Flat
        counted == CountedRefs(flat)
    IN  \E i \in 1..Len(flat), j \in 1..Len(flat), k \in counted :
            /\ flat[i].code = <<"c", "s", "1">>
            /\ flat[j].code = <<"C", "S", " ", "1">>
            /\ Cardinality(counted \cap {i, j}) = 1
            /\ ~SameCourseCode(flat[i].code, flat[k].code)

\* the lists the ledger functions are applied to in a state: the current
\* list, the empty list, and the current list followed by an empty semester
LedgerInputs ==
    {simulatedSemesters, << >>,
     Append(simulatedSemesters, NewSemester(now, Len(simulatedSemesters)))}

\* a CGPAResult: a numeric string with two decimals and three numbers
IsCGPAResult(r) ==
    /\ r.cgpa[1] \in {"", "-"} /\ r.cgpa[2] \in Nat
    /\ r.totalCredits \in Int /\ r.totalPoints \in Int
    /\ r.totalEarnedCredits \in Int

C14_CreditsNonNegative ==
    \A course \in AllCourses : course.credits \in Int /\ course.credits >= 0

\* the text has no course line after a semester header: no header at all,
\* or only headers whose blocks hold no course
YieldsNoSemester(text) ==
    ~\E i \in 1..Len(text), j \in 1..Len(text) :
        i < j /\ text[i].t = "hdr" /\ text[j].t = "course"

(* C15: when handleFileUpload completes on a document that yields no       *)
(* semester, error is set to a diagnostic and data is left as it was; a    *)
(* record that an upload does store has at least one semester              *)
C15_ZeroSemestersIsFailure ==
    [][(pending # Null /\ pending' = Null) =>
          /\ YieldsNoSemester(pending.file) =>
                error' # NoError /\ data' = data /\ ~isLoading'
          /\ data' # data => data' # Null /\ data'.semesters # << >>]_vars

\* an upload of a document with a header and no course has ended: the
\* parser returned a record without semesters and the caller refused it
C15_Witness ==
    /\ error = "Could not find any semester data"
    /\ pending = Null
    /\ ~isLoading
    /\ data = Null

\* the fields of a StudentInfo
StudentFields == {"name", "fatherName", "studentNo", "regStatus", "program"}

(* C16: every field of the StudentInfo that parseTranscript returns is a   *)
(* non-empty captured value or "Unknown", never the empty string, also     *)
(* when a label is missing or nothing stands between it and the next label *)
C16_StudentFieldNeverEmpty ==
    pending # Null =>
        LET r == parseTranscript(pending.file)
        IN  r.ok => \A f \in StudentFields : r.value.student[f] # << >>

RECURSIVE Ascending(_)
\* the numbers of the finite set S in ascending order
Ascending(S) ==
    IF S = {} THEN << >>
    ELSE LET least == CHOOSE x \in S : \A y \in S : x <= y
         IN  <<least>> \o Ascending(S \ {least})

\* the positions of the course lines that follow header n of hs (the
\* ascending header positions) and come before header n + 1
CoursesUnder(text, hs, n) ==
    Ascending({j \in 1..Len(text) :
                  /\ text[j].t = "course"
                  /\ j > hs[n]
                  /\ n < Len(hs) => j < hs[n + 1]})

(* C17: for a text with headers parseTranscript returns, in header order,  *)
(* one semester for each header that has course lines between it and the   *)
(* next header (or the end), holding exactly those course lines in order;  *)
(* a course line before the first header is in no semester                 *)
C17_BlocksRunHeaderToHeader ==
    pending # Null =>
        LET text == pending.file
            hs   == Ascending({i \in 1..Len(text) : text[i].t = "hdr"})
            r    == parseTranscript(text)
            kept == Ascending({n \in 1..Len(hs) : CoursesUnder(text, hs, n) # << >>})
        IN  hs # << >> =>
                /\ r.ok
                /\ Len(r.value.semesters) = Len(kept)
                /\ \A k \in 1..Len(kept) :
                      LET sem   == r.value.semesters[k]
                          under == CoursesUnder(text, hs, kept[k])
                      IN  /\ sem.id = <<"sem", kept[k] - 1>>
                          /\ sem.name = text[hs[kept[k]]].label
                          /\ Len(sem.courses) = Len(under)
                          /\ \A c \in 1..Len(under) :
                                /\ sem.courses[c].code = text[under[c]].code
                                /\ sem.courses[c].grade = text[under[c]].grade

\* the text parsed has a course line before its first header, a header
\* without course lines and a later header with one
C17_Witness ==
    /\ pending # Null
    /\ LET text == pending.file
       IN  /\ text[1].t = "course"
           /\ \E i \in 1..Len(text) - 1 : text[i].t = "hdr" /\ text[i + 1].t = "hdr"
           /\ parseTranscript(text).ok
           /\ Len(parseTranscript(text).value.semesters) = 1

\* the records parseTranscript returns for the transcripts
ParsedRecords ==
    {parseTranscript(text).value :
        text \in {t \in Transcripts : parseTranscript(t).ok}}

(* C18: a step of an edit handler leaves the loaded record as it was, so   *)
(* that the record of an upload is at all times one the parser returned,   *)
(* and Reset Projection makes the list shown the list of that record       *)
C18_EditsLeaveParsedRecord ==
    [][/\ edits' = edits + 1 =>
             /\ data' = data
             /\ ~IsManual(data) => data \in ParsedRecords
       /\ resetProjection =>
             /\ simulatedSemesters' = data.semesters
             /\ data' \in ParsedRecords]_vars

\* after two edits the list shown has another semester count and another
\* first semester than the loaded record, which is still a parsed record
C18_Witness ==
    /\ ViewShown
    /\ edits = 2
    /\ data \in ParsedRecords
    /\ Len(simulatedSemesters) # Len(data.semesters)
    /\ simulatedSemesters[1] # data.semesters[1]

\* the ids of a semester list, in order
Ids(list) == [i \in 1..Len(list) |-> list[i].id]

RECURSIVE IsSubsequence(_, _)
\* a is b with some entries left out
IsSubsequence(a, b) ==
    IF a = << >> THEN TRUE
    ELSE IF b = << >> THEN FALSE
    ELSE IF Head(a) = Head(b) THEN IsSubsequence(Tail(a), Tail(b))
    ELSE IsSubsequence(a, Tail(b))

(* C19: a step of an edit handler leaves the semesters that survive in     *)
(* their order: the ids after the step are the ids before with entries     *)
(* left out, or with one id added at the end; addSemester adds its         *)
(* semester at the end; and calculateSemesterProgressions of the new list  *)
(* has one point per semester, in the order of the list                    *)
C19_SemesterOrderKept ==
    [][edits' = edits + 1 =>
          LET old  == Ids(simulatedSemesters)
              new  == Ids(simulatedSemesters')
              prog == calculateSemesterProgressions(simulatedSemesters')
          IN  /\ IF Len(new) > Len(old)
                 THEN Len(new) = Len(old) + 1 /\ SubSeq(new, 1, Len(old)) = old
                 ELSE IsSubsequence(new, old)
              /\ addSemester =>
                    /\ Len(new) = Len(old) + 1
                    /\ new[Len(new)] = <<"future-sem", now>>
                    /\ simulatedSemesters'[Len(new)].name
                          = <<"Future Semester", Len(old) + 1>>
              /\ deleteSemester =>
                    IsSubsequence(simulatedSemesters', simulatedSemesters)
              /\ Len(prog) = Len(new)
              /\ \A i \in 1..Len(new) : prog[i].semesterId = new[i]]_vars

\* two parsed semesters followed by two added ones, in the order in which
\* they were added
C19_Witness ==
    /\ ViewShown
    /\ Ids(simulatedSemesters)
          = <<<<"sem", 0>>, <<"sem", 1>>, <<"future-sem", 1>>, <<"future-sem", 2>>>>
    /\ Ids(data.semesters) = <<<<"sem", 0>>, <<"sem", 1>>>>

\* the properties of metadata that hold the student's identity and CGPA
StudentPaths == {"studentName", "fatherName", "studentNo", "cgpa"}

(* C20: no request the client sends to the server carries the student's   *)
(* name, father's name, student number or CGPA, and no metric the server  *)
(* stores holds one of them                                               *)
C20_StudentDataStaysInBrowser ==
    /\ \A i \in 1..Len(requests) :
          "metadata" \in DOMAIN requests[i] =>
              DOMAIN requests[i].metadata \cap StudentPaths = {}
    /\ \A i \in 1..Len(metrics) :
          DOMAIN metrics[i].metadata \cap StudentPaths = {}

\* the semester sem with other derived values stored in it
WithStored(sem, sgpa, totalCredits, totalPoints) ==
    [sem EXCEPT !.sgpa = sgpa, !.totalCredits = totalCredits, !.totalPoints = totalPoints]

\* derived values a semester may have stored before it is recalculated
StoredInputs == {<<<<0, 1>>, 0, 0>>, <<<<4, 1>>, 6, 96>>, <<<<7, 2>>, -2, 1000>>}

(* C21: recalculateSemester applied to its own output returns that output, *)
(* and applied to two semesters with the same course list it yields the    *)
(* same sgpa, totalCredits and totalPoints whatever derived values were    *)
(* stored in them before                                                   *)
C21_RecalculateIsIdempotent ==
    \A i \in 1..Len(simulatedSemesters) :
        LET sem  == simulatedSemesters[i]
            once == recalculateSemester(sem)
        IN  /\ recalculateSemester(once) = once
            /\ \A s \in StoredInputs :
                  recalculateSemester(WithStored(sem, s[1], s[2], s[3])) = once

\* a parsed semester whose stored sgpa is not the recalculated one, with
\* courses that count: the first application changes it, the second does not
C21_Witness ==
    \E i \in 1..Len(simulatedSemesters) :
        LET sem == simulatedSemesters[i]
        IN  /\ recalculateSemester(sem) # sem
            /\ recalculateSemester(sem).totalCredits > 0
            /\ recalculateSemester(sem).totalPoints > 0

\* the rows whose course is another one after the step
ChangedRows ==
    {r \in Rows :
        \/ r[1] > Len(simulatedSemesters')
        \/ r[2] > Len(simulatedSemesters'[r[1]].courses)
        \/ simulatedSemesters'[r[1]].courses[r[2]] # simulatedSemesters[r[1]].courses[r[2]]}

\* seq without its k-th entry
RemoveAt(seq, k) == SubSeq(seq, 1, k - 1) \o SubSeq(seq, k + 1, Len(seq))

\* the step keeps the number of semesters and of courses of each semester
SameShape ==
    /\ Len(simulatedSemesters') = Len(simulatedSemesters)
    /\ \A i \in 1..Len(simulatedSemesters) :
          Len(simulatedSemesters'[i].courses) = Len(simulatedSemesters[i].courses)

(* C22: a step of handleGradeChange or handleCourseEdit changes at most    *)
(* the one course it was invoked for, and a step of deleteCourse removes   *)
(* exactly that one course: every other course of every semester keeps     *)
(* its code, title, credits, grade and points                              *)
C22_CourseEditTouchesOneCourse ==
    [][/\ (handleGradeChange \/ handleCourseEdit) =>
             SameShape /\ Cardinality(ChangedRows) <= 1
       /\ deleteCourse =>
             /\ Len(simulatedSemesters') = Len(simulatedSemesters)
             /\ \E r \in Rows :
                   \A i \in 1..Len(simulatedSemesters) :
                       simulatedSemesters'[i].courses
                           = IF i = r[1]
                             THEN RemoveAt(simulatedSemesters[i].courses, r[2])
                             ELSE simulatedSemesters[i].courses]_vars

\* the position of grade in GRADES_ORDER (1 is the highest), or 0
GradeRank(grade) ==
    IF \E n \in 1..Len(GRADES_ORDER) : GRADES_ORDER[n] = grade
    THEN CHOOSE n \in 1..Len(GRADES_ORDER) : GRADES_ORDER[n] = grade
    ELSE 0

\* the number a cgpa string reads as, in hundredths
CgpaValue(cgpa) == IF cgpa[1] = "-" THEN -cgpa[2] ELSE cgpa[2]

\* the step is handleGradeChange for row r with newGrade, a grade of the
\* canonical order higher than the one the course has
RaisesGrade(r, newGrade) ==
    LET sem    == simulatedSemesters[r[1]]
        course == sem.courses[r[2]]
    IN  /\ edits' = edits + 1
        /\ simulatedSemesters'
              = handleGradeChangeTo(simulatedSemesters, sem.id, course.code, newGrade)
        /\ GradeRank(course.grade) # 0
        /\ GradeRank(newGrade) # 0
        /\ GradeRank(newGrade) < GradeRank(course.grade)

(* C23: a step of handleGradeChange that gives a course a higher grade of  *)
(* the canonical order leaves calculateCGPA's cgpa greater than or equal   *)
(* to what it was, also when the code is attempted in several semesters    *)
(* with different credits                                                  *)
C23_RaisingGradeNeverLowersCgpa ==
    [][\A r \in Rows, newGrade \in GradeInputs :
          RaisesGrade(r, newGrade) =>
              CgpaValue(calculateCGPA(simulatedSemesters').cgpa)
                  >= CgpaValue(calculateCGPA(simulatedSemesters).cgpa)]_vars

\* progressions.find(p => p.semesterId === id): the position of the first
\* progression point with that id (0 when none)
FindProgression(prog, id) ==
    IF \E p \in 1..Len(prog) : prog[p].semesterId = id
    THEN CHOOSE p \in 1..Len(prog) :
             /\ prog[p].semesterId = id
             /\ \A q \in 1..(p - 1) : prog[q].semesterId # id
    ELSE 0

(* C24: in every reachable state the ids of the semesters of the list are  *)
(* pairwise distinct, those made by startManualMode and addSemester from   *)
(* the clock included, so that the progression point found for semester i  *)
(* is point i                                                              *)
C24_SemesterIdsDistinct ==
    /\ \A i \in 1..Len(simulatedSemesters), j \in 1..Len(simulatedSemesters) :
          i # j => simulatedSemesters[i].id # simulatedSemesters[j].id
    /\ \A i \in 1..Len(simulatedSemesters) :
          FindProgression(Progressions, simulatedSemesters[i].id) = i

\* no normalized course code occurs more than once in the list
NoRetakes ==
    \A i \in 1..Len(Flat), j \in 1..Len(Flat) :
        i # j => NormalizeCode(Flat[i].code) # NormalizeCode(Flat[j].code)

\* the sum of the stored field of all semesters of the list
SumStored(field) ==
    SumOver(1..Len(simulatedSemesters),
            [i \in 1..Len(simulatedSemesters) |-> simulatedSemesters[i][field]])

(* C25: in every reachable state where no normalized course code occurs    *)
(* more than once in the list, calculateCGPA's totalCredits and            *)
(* totalPoints are the sums of the semesters' stored totalCredits and      *)
(* totalPoints                                                             *)
C25_TotalsAgreeWithoutRetakes ==
    NoRetakes =>
        LET stats == calculateCGPA(simulatedSemesters)
        IN  /\ stats.totalCredits = SumStored("totalCredits")
            /\ stats.totalPoints = SumStored("totalPoints")

\* an edited list of two semesters without retakes that holds a withdrawn
\* course stating credits, and whose totals are not zero
C25_Witness ==
    /\ NoRetakes
    /\ edits > 0
    /\ Len(simulatedSemesters) >= 2
    /\ \A i \in 1..Len(simulatedSemesters) : simulatedSemesters[i].courses # << >>
    /\ \E i \in 1..Len(Flat) : IsWI(Flat[i]) /\ Flat[i].credits > 0
    /\ calculateCGPA(simulatedSemesters).totalPoints > 0

\* a cgpa string reads as a number from 0.00 to 4.00
InGpaRange(cgpa) == CgpaValue(cgpa) >= 0 /\ CgpaValue(cgpa) <= 400

(* C26: in every state reached by parsing or manual start and any edits,   *)
(* the cgpa of calculateCGPA and the cumulativeCGPA of every progression   *)
(* point lie between 0.00 and 4.00 inclusive                               *)
C26_CgpaWithinScale ==
    /\ InGpaRange(calculateCGPA(simulatedSemesters).cgpa)
    /\ \A i \in 1..Len(Progressions) : InGpaRange(Progressions[i].cumulativeCGPA)

(* C27: when an upload finishes after handleReset or startManualMode ran   *)
(* while it was in flight, data stays what that later action set (null,    *)
(* or the manual record) and error is not set by the abandoned upload      *)
C27_LaterActionNotOverridden ==
    [][(pending # Null /\ pending' = Null /\ overtaken) =>
          data' = data /\ error' = error]_vars

\* thirty minutes, in the milliseconds of Date.now()
ThirtyMinutes == 30 * 60 * 1000

\* the requests posted by the step
PostedByStep == SubSeq(requests', Len(requests) + 1, Len(requests'))

\* the session ids that were ever sent or stored before the step
KnownSessions ==
    {requests[i].sessionId : i \in 1..Len(requests)}
        \cup {metrics[i].sessionId : i \in 1..Len(metrics)}
        \cup {localStorage[k] : k \in DOMAIN localStorage \cap {"transgpa_session_id"}}

(* C28: a call of getSessionId (on mount and in every tracking call)       *)
(* starts a new session exactly when no session id is stored or more than  *)
(* thirty minutes passed since the stored last-active time: then a fresh   *)
(* id is stored and one SESSION_START is posted for it; otherwise the      *)
(* stored id stays and no SESSION_START is posted; either way last-active  *)
(* becomes the current time and the event tracked carries the session id   *)
C28_SessionRenewedOnlyAfterTimeout ==
    [][(steps' = steps + 1 /\ now' = now) =>
          LET had     == "transgpa_session_id" \in DOMAIN localStorage
              expired == had /\ now - localStorage["transgpa_last_active"] > ThirtyMinutes
              posted  == PostedByStep
              starts  == {i \in 1..Len(posted) : posted[i].eventType = "SESSION_START"}
              id      == localStorage'["transgpa_session_id"]
          IN  /\ localStorage'["transgpa_last_active"] = now
              /\ \A i \in 1..Len(posted) : posted[i].sessionId = id
              /\ IF ~had \/ expired
                 THEN /\ id \notin KnownSessions
                      /\ id # localStorage'["transgpa_user_id"]
                      /\ Cardinality(starts) = 1
                 ELSE /\ id = localStorage["transgpa_session_id"]
                      /\ starts = {}]_vars

\* an upload tracked within the first session and, more than thirty
\* minutes later, a second session started by the next tracking call
C28_Witness ==
    /\ now > ThirtyMinutes
    /\ "transgpa_session_id" \in DOMAIN localStorage
    /\ \E i \in 1..Len(requests), j \in 1..Len(requests), k \in 1..Len(requests) :
          /\ i < j /\ j < k
          /\ requests[i].eventType = "SESSION_START"
          /\ requests[j].eventType = "UPLOAD"
          /\ requests[j].sessionId = requests[i].sessionId
          /\ requests[k].eventType = "SESSION_START"
          /\ requests[k].sessionId # requests[i].sessionId
          /\ requests[k].sessionId = localStorage["transgpa_session_id"]

\* the user has an UPLOAD record in the collection
HasUpload(userId) ==
    \E i \in 1..Len(metrics) :
        metrics[i].userId = userId /\ metrics[i].eventType = "UPLOAD"

(* C29: the step in which POST /cleanup deletes leaves exactly the records *)
(* of the users who have an UPLOAD record at that moment: every record of  *)
(* a user without one is deleted and no record of a user with one is,      *)
(* also when POST /track stored an UPLOAD while the cleanup was under way  *)
C29_CleanupRemovesOnlyOrphans ==
    [][(adminRequest # Null /\ adminRequest.route = "cleanup" /\ adminRequest' = Null) =>
          metrics' = SelectSeq(metrics, LAMBDA m : HasUpload(m.userId))]_vars

\* the step deletes records from the collection
RecordsDeleted ==
    \E i \in 1..Len(metrics) :
        \A j \in 1..Len(metrics') : metrics'[j]._id # metrics[i]._id

(* C30: a step of DELETE /uploads or POST /cleanup deletes records only    *)
(* when its request came from the admin page after handleLogin accepted    *)
(* the configured credentials; a caller who has not logged in has no       *)
(* record deleted                                                          *)
C30_DeletesNeedAdminLogin ==
    [][RecordsDeleted => adminRequest # Null /\ adminRequest.fromPage]_vars

====
